---- MODULE Spec2Model ----
(***************************************************************************)
(* Drift-gated retraining pipeline of the real-estate MLOps repository:    *)
(* the Airflow tasks ingest_data and check_drift (mlops_pipeline.py), the  *)
(* batch store and audit sink (data_loader.py), the cleaner                *)
(* (preprocessing.py) and the KS drift detector (drift_detection.py).      *)
(*                                                                         *)
(* Numbers are integers in fixed units: bath in tenths, acre_lot in        *)
(* 1/2000 acre (raw values are multiples of 1/1000 acre, so a median of    *)
(* two of them is again an integer), the other fields in their own unit.   *)
(* A KS statistic and a p-value are exact rationals [num, den].            *)
(***************************************************************************)
EXTENDS Integers, Sequences, FiniteSets, TLC

VARIABLES
  raw_data,       \* PostgreSQL table raw_data, one entry per stored batch
  s3,             \* S3 object data-raw/current_batch.csv
  drift_history,  \* PostgreSQL table drift_history (audit trail)
  xcom,           \* XCom return value of ingest_data, per DAG run
  pc,             \* task each DAG run is at
  faults,         \* collaborator failures that have happened so far
  gate,           \* what the last check_drift of each run did
  clock,          \* datetime.now(), also the source of fresh batch ids
  reference_df,   \* detect_drift called on its own: first argument
  current_df,     \* second argument
  p_value_threshold,  \* third argument
  verdict,        \* (drift_detected, details) it returned
  raw_df,         \* clean_data called on its own: the argument
  cleaned,        \* what it returned, and what a second pass returns
  registry,       \* MLflow Model Registry: the versions of real_estate_model
  trainer,        \* each train_and_log_model call: position and locals
  api,            \* the module globals of the API process
  loader,         \* the /reload request: position in load_production_model
  reader,         \* a /predict request: position and what it has read
  clean_table,    \* PostgreSQL table clean_data, one entry per saved frame
  dag,            \* the tasks after check_drift, per DAG run: their states
  response,       \* the answer of the last request an endpoint handled
  inference_logs  \* PostgreSQL table inference_logs: the rows written

vars == <<raw_data, s3, drift_history, xcom, pc, faults, gate, clock,
          reference_df, current_df, p_value_threshold, verdict,
          raw_df, cleaned, registry, trainer, api, loader, reader,
          clean_table, dag, response, inference_logs>>

pipelineVars == <<raw_data, s3, drift_history, xcom, pc, faults, gate, clock>>
detectVars == <<reference_df, current_df, p_value_threshold, verdict>>
cleanVars == <<raw_df, cleaned>>
trainVars == <<registry, trainer>>
serveVars == <<api, loader, reader>>
dagVars == <<clean_table, dag>>
endpointVars == <<response, inference_logs>>

(***************************************************************************)
(* Bounds of the model.                                                    *)
(***************************************************************************)
MaxRuns == 2      \* DAG runs triggered
BatchRows == 10   \* rows of a fetched batch
MaxRows == 12     \* rows of a hand-made frame
MaxNaN == 2       \* rows of a hand-made frame whose bed is missing
MaxFaults == 1    \* collaborator failures in one behaviour
MaxTrainings == 2 \* train_and_log_model calls, running side by side
MaxVersions == 2  \* versions of the model promoted one after another
SmallRows == 5    \* rows of a small batch handed to clean_data
LargeRows == 110  \* rows of the largest batch handed to clean_data
MaxDagRuns == 1   \* DAG runs followed through the tasks after check_drift
MaxInferences == 1 \* rows written to inference_logs

(***************************************************************************)
(* Program constants.                                                      *)
(***************************************************************************)
NaN == -1             \* missing value (to_numeric coerces to NaN)
NonNumeric == -2      \* a raw value pd.to_numeric cannot convert
NoneId == 0           \* Python None as a batch id
UnknownId == -3       \* 'unknown' reference batch id
MIN_SAMPLES == 10     \* len(ref_data) < 10 or len(curr_data) < 10
OUTLIER_MIN_ROWS == 100
BED_MIN == 1
BED_MAX == 20
BATH_MIN == 5         \* 0.5 in tenths
BATH_MAX == 150       \* 15 in tenths
ACRE_MIN == 2         \* 0.001 acre in 1/2000 acre
ACRE_MAX == 2000000   \* 1000 acres
SIZE_MIN == 100
SIZE_MAX == 50000
R2_THRESHOLD == 35        \* 0.35 in hundredths
RMSE_THRESHOLD == 700000  \* $700K

numerical_features == <<"bed", "bath", "acre_lot", "house_size", "price">>
critical_cols == <<"price", "bed", "bath", "house_size">>
AllColumns == {"id", "bed", "bath", "acre_lot", "house_size", "price"}

(***************************************************************************)
(* Arithmetic helpers.                                                     *)
(***************************************************************************)
Abs(a) == IF a < 0 THEN 0 - a ELSE a

RECURSIVE GCD(_, _)
GCD(a, b) == IF b = 0 THEN a ELSE GCD(b, a % b)

\* the rational a/b in lowest terms
Rat(a, b) == LET g == GCD(a, b) IN [num |-> a \div g, den |-> b \div g]
RatZero == [num |-> 0, den |-> 1]
RatLess(p, q) == p.num * q.den < q.num * p.den

Range(s) == {s[i] : i \in DOMAIN s}
CountLE(s, x) == Cardinality({i \in DOMAIN s : s[i] <= x})
CountLT(s, x) == Cardinality({i \in DOMAIN s : s[i] < x})

(***************************************************************************)
(* DataFrames: a set of column names and a sequence of rows. A row is a    *)
(* record over all the columns the model knows; the fields of a column the *)
(* frame does not have are never read. The field id stands for the columns *)
(* that are not numeric (street, city, the table's serial id): two rows    *)
(* are exact duplicates iff they agree on it as well.                      *)
(***************************************************************************)
NoneDF == [none |-> TRUE, columns |-> {}, rows |-> <<>>]
DataFrame(cols, rows) == [none |-> FALSE, columns |-> cols, rows |-> rows]

\* df is None or df.empty
IsNoneOrEmpty(df) == df.none \/ Len(df.rows) = 0 \/ df.columns = {}

\* df[col].dropna().values
DropNaValues(df, col) ==
  LET all == [i \in DOMAIN df.rows |-> df.rows[i][col]]
  IN SelectSeq(all, LAMBDA v : v # NaN)

(***************************************************************************)
(* scipy.stats.ks_2samp, two-sided, exact distribution (the mode scipy     *)
(* takes for samples of this size). With n = len(ref), m = len(cur) the    *)
(* statistic is D = max_x |F_ref(x) - F_cur(x)| = H / (n * m), and the     *)
(* p-value is P(D >= H / (n * m)) = 1 - inside / C(n + m, n), where inside *)
(* counts the lattice paths from (0, 0) to (n, m) all of whose points      *)
(* (i, j) satisfy |i * m - j * n| < H.                                     *)
(***************************************************************************)
RECURSIVE LatticeRow(_, _, _, _, _, _, _)
LatticeRow(n, m, H, i, j, prev, cur) ==
  IF j > m THEN cur
  ELSE LET inside == Abs(i * m - j * n) < H
           up == IF i = 0 THEN 0 ELSE prev[j + 1]
           left == IF j = 0 THEN 0 ELSE cur[j]
           v == IF ~inside THEN 0 ELSE IF i = 0 /\ j = 0 THEN 1 ELSE up + left
       IN LatticeRow(n, m, H, i, j + 1, prev, Append(cur, v))

RECURSIVE LatticeRows(_, _, _, _, _)
LatticeRows(n, m, H, i, prev) ==
  IF i > n THEN prev[m + 1]
  ELSE LET row == LatticeRow(n, m, H, i, 0, prev, <<>>)
       IN IF Len(row) = m + 1 THEN LatticeRows(n, m, H, i + 1, row) ELSE 0

PathsInside(n, m, H) == LatticeRows(n, m, H, 0, <<>>)

\* the path counts of every pair of sample sizes a KS test can be run on
KSSizes == MIN_SAMPLES..(IF MaxRows > BatchRows THEN MaxRows ELSE BatchRows)
KSPaths ==
  [n \in KSSizes, m \in KSSizes |->
     [H \in 0..(n * m + 1) |-> PathsInside(n, m, H)]]

\* numerator of the statistic over n * m
KSNumerator(ref_data, curr_data) ==
  LET n == Len(ref_data)
      m == Len(curr_data)
      xs == Range(ref_data) \cup Range(curr_data)
      diff(x) == Abs(CountLE(ref_data, x) * m - CountLE(curr_data, x) * n)
  IN CHOOSE h \in {diff(x) : x \in xs} : \A x \in xs : diff(x) <= h

ks_2samp(ref_data, curr_data) ==
  LET n == Len(ref_data)
      m == Len(curr_data)
      H == KSNumerator(ref_data, curr_data)
      total == KSPaths[n, m][n * m + 1]
      inside == KSPaths[n, m][H]
  IN [statistic |-> Rat(H, n * m), p_value |-> Rat(total - inside, total)]

(***************************************************************************)
(* drift_detection.detect_drift with return_details=True.                  *)
(***************************************************************************)
P_VALUE_THRESHOLD == [num |-> 1, den |-> 20]   \* p_value_threshold=0.05

NoVerdict ==
  [drift_detected |-> FALSE, features_with_drift |-> <<>>,
   drift_scores |-> <<>>, max_drift_score |-> RatZero,
   reference_samples |-> 0, current_samples |-> 0]

\* a guard that would also reject samples of exactly 10
InsufficientDataAtTen(ref_data, curr_data) ==
  Len(ref_data) <= MIN_SAMPLES \/ Len(curr_data) <= MIN_SAMPLES

\* len(ref_data) < 10 or len(curr_data) < 10
InsufficientData(ref_data, curr_data) ==
  Len(ref_data) < MIN_SAMPLES \/ Len(curr_data) < MIN_SAMPLES

\* a maximum that would be taken over every scored feature
NextMaxScoreAnyFeature(max_drift_score, statistic, drift) ==
  IF RatLess(max_drift_score, statistic) THEN statistic ELSE max_drift_score

\* max_drift_score after a feature: only a drifted feature can raise it
NextMaxScore(max_drift_score, statistic, drift) ==
  IF drift /\ RatLess(max_drift_score, statistic) THEN statistic
  ELSE max_drift_score

\* a comparison that would also flag a p-value equal to the threshold
AtOrBelowThreshold(p_value, threshold) == ~RatLess(threshold, p_value)

\* p_value < p_value_threshold
BelowThreshold(p_value, threshold) == RatLess(p_value, threshold)

\* what one scored feature adds to the verdict
ScoreFeature(acc, feature, ks, drift) ==
  [acc EXCEPT
     !.drift_scores = @ @@ (feature :> [statistic |-> ks.statistic,
                                        p_value |-> ks.p_value,
                                        drift |-> drift]),
     !.drift_detected = @ \/ drift,
     !.features_with_drift = IF drift THEN Append(@, feature) ELSE @,
     !.max_drift_score = NextMaxScore(@, ks.statistic, drift)]

\* ks_2samp on a feature's values and the comparison with the threshold
TestFeature(acc, feature, ks, threshold) ==
  ScoreFeature(acc, feature, ks, BelowThreshold(ks.p_value, threshold))

\* a column test that would look at the reference only
FeaturePresentInReference(ref, cur, feature) == feature \in ref.columns

\* feature in reference_df.columns and feature in current_df.columns
FeaturePresent(ref, cur, feature) ==
  feature \in ref.columns /\ feature \in cur.columns

\* the body of the loop over numerical_features, for one feature
DetectFeature(ref, cur, threshold, feature, acc) ==
  IF ~FeaturePresent(ref, cur, feature) THEN acc
  ELSE
    LET ref_data == DropNaValues(ref, feature)
        curr_data == DropNaValues(cur, feature)
    IN IF InsufficientData(ref_data, curr_data) THEN acc
       ELSE TestFeature(acc, feature, ks_2samp(ref_data, curr_data), threshold)

RECURSIVE DetectLoop(_, _, _, _, _)
DetectLoop(ref, cur, threshold, k, acc) ==
  IF k > Len(numerical_features) THEN acc
  ELSE DetectLoop(ref, cur, threshold, k + 1,
                  DetectFeature(ref, cur, threshold, numerical_features[k], acc))

detect_drift(ref, cur, threshold) ==
  DetectLoop(ref, cur, threshold, 1,
             [NoVerdict EXCEPT !.reference_samples = Len(ref.rows),
                               !.current_samples = Len(cur.rows)])

\* what can raise inside the loop for a feature that passed the column
\* test: df[feature] on a frame without the column (KeyError), ks_2samp on
\* an empty sample (ValueError)
FeatureRaises(ref, cur, feature) ==
  /\ FeaturePresent(ref, cur, feature)
  /\ \/ feature \notin ref.columns
     \/ feature \notin cur.columns
     \/ /\ ~InsufficientData(DropNaValues(ref, feature), DropNaValues(cur, feature))
        /\ \/ Len(DropNaValues(ref, feature)) = 0
           \/ Len(DropNaValues(cur, feature)) = 0

\* detect_drift ends in an exception instead of a return
DetectRaises(ref, cur) ==
  \E k \in DOMAIN numerical_features : FeatureRaises(ref, cur, numerical_features[k])

(***************************************************************************)
(* preprocessing.clean_data. The string columns it rewrites (state,        *)
(* status, ...) are part of the field id and are not modelled further.     *)
(***************************************************************************)
\* pd.to_numeric(errors='coerce') on one value
to_numeric(v) == IF v = NonNumeric THEN NaN ELSE v

SameRow(df, r1, r2) == \A c \in df.columns : r1[c] = r2[c]

\* no earlier row of the frame equals row i
FirstOfEqualRows(df, i) ==
  \A j \in 1..(i - 1) : ~SameRow(df, df.rows[j], df.rows[i])

\* the rows at the positions kept, in their order
KeptRows(df, kept) == [k \in DOMAIN kept |-> df.rows[kept[k]]]

\* df.drop_duplicates(): the first of each group of equal rows is kept
drop_duplicates(df) ==
  [df EXCEPT !.rows =
     KeptRows(df, SelectSeq([i \in DOMAIN df.rows |-> i],
                            LAMBDA i : FirstOfEqualRows(df, i)))]

ConvertTypes(df) ==
  LET num_cols == Range(numerical_features) \cap df.columns
      conv(r) == [c \in DOMAIN r |-> IF c \in num_cols THEN to_numeric(r[c]) ELSE r[c]]
  IN [df EXCEPT !.rows = [i \in DOMAIN df.rows |-> conv(df.rows[i])]]

\* df.dropna(subset=[col]) for every critical column the frame has
DropMissingCritical(df) ==
  LET cols == Range(critical_cols) \cap df.columns
  IN [df EXCEPT !.rows = SelectSeq(@, LAMBDA r : \A c \in cols : r[c] # NaN)]

\* the k-th smallest value (k from 0) of a non-empty sequence
Kth(vals, k) ==
  CHOOSE x \in Range(vals) : CountLT(vals, x) <= k /\ k < CountLE(vals, x)

\* Series.median(): NaN values are skipped; NaN when nothing is left
Median(vals) ==
  LET present == SelectSeq(vals, LAMBDA v : v # NaN)
      n == Len(present)
  IN IF n = 0 THEN NaN
     ELSE IF n % 2 = 1 THEN Kth(present, (n - 1) \div 2)
     ELSE (Kth(present, n \div 2 - 1) + Kth(present, n \div 2)) \div 2

\* df['acre_lot'].fillna(df['acre_lot'].median())
FillAcreLot(df) ==
  IF "acre_lot" \notin df.columns THEN df
  ELSE LET med == Median([i \in DOMAIN df.rows |-> df.rows[i].acre_lot])
       IN [df EXCEPT !.rows =
             [i \in DOMAIN @ |->
                IF @[i].acre_lot = NaN THEN [@[i] EXCEPT !.acre_lot = med] ELSE @[i]]]

\* 100 * Series.quantile(q / 100), linear interpolation between the two
\* neighbouring order statistics
Quantile100(vals, q) ==
  LET pos == q * (Len(vals) - 1)
      lo == pos \div 100
      frac == pos % 100
      vlo == Kth(vals, lo)
  IN IF frac = 0 THEN 100 * vlo
     ELSE 100 * vlo + (Kth(vals, lo + 1) - vlo) * frac

\* a filter that would apply to every batch
OutliersApplyAlways(df) == Len(df.rows) > 0

\* len(df) > 100
OutliersApply(df) == Len(df.rows) > OUTLIER_MIN_ROWS

\* keep the rows of a column within its [1st, 99th] percentile, in frames
\* of more than 100 rows
RemoveOutliers(df, col) ==
  IF ~(col \in df.columns /\ OutliersApply(df)) THEN df
  ELSE LET vals == [i \in DOMAIN df.rows |-> df.rows[i][col]]
           p1 == Quantile100(vals, 1)
           p99 == Quantile100(vals, 99)
       IN [df EXCEPT !.rows =
             SelectSeq(@, LAMBDA r : 100 * r[col] >= p1 /\ 100 * r[col] <= p99)]

\* a range test that would check the lower bound only
InRangeLowerOnly(df, r, col, lo, hi) == col \in df.columns => r[col] >= lo

InRange(df, r, col, lo, hi) == col \in df.columns => (r[col] >= lo /\ r[col] <= hi)

\* step 5: positive values, then the reasonable ranges
ValidateRanges(df) ==
  LET positive(r) == \A c \in Range(numerical_features) \cap df.columns : r[c] > 0
      ranges(r) == /\ InRange(df, r, "bed", BED_MIN, BED_MAX)
                   /\ InRange(df, r, "bath", BATH_MIN, BATH_MAX)
                   /\ InRange(df, r, "acre_lot", ACRE_MIN, ACRE_MAX)
                   /\ InRange(df, r, "house_size", SIZE_MIN, SIZE_MAX)
  IN [df EXCEPT !.rows = SelectSeq(@, LAMBDA r : positive(r) /\ ranges(r))]

clean_data(df) ==
  LET deduped == drop_duplicates(df)
      typed == ConvertTypes(deduped)
      complete == FillAcreLot(DropMissingCritical(typed))
      trimmed == RemoveOutliers(RemoveOutliers(complete, "price"), "house_size")
  IN ValidateRanges(trimmed)

(***************************************************************************)
(* Frames the model feeds to the pipeline and to the detector. Row i of a  *)
(* frame of n rows: the first a rows have a high bed and bath, the last b  *)
(* rows a high acre_lot, house_size and price, the last g rows no bed and  *)
(* the first p rows no price. Every row differs from the others in id.     *)
(***************************************************************************)
MakeRow(i, n, a, b, g, p, cols) ==
  LET val(c, v) == IF c \in cols THEN v ELSE NaN
  IN [id         |-> i,
      batch_id   |-> NoneId,
      bed        |-> val("bed", IF i > n - g THEN NaN ELSE IF i <= a THEN 4 ELSE 2),
      bath       |-> val("bath", IF i <= a THEN 30 ELSE 10),
      acre_lot   |-> val("acre_lot", IF i > n - b THEN 4000 ELSE 500),
      house_size |-> val("house_size", IF i > n - b THEN 3000 ELSE 1000),
      price      |-> val("price", IF i <= p THEN NaN
                                  ELSE IF i > n - b THEN 500000 ELSE 100000)]

Frame(n, a, b, g, p, cols) ==
  DataFrame(cols, [i \in 1..n |-> MakeRow(i, n, a, b, g, p, cols)])

\* numbers of shifted rows: 6 of 10 is the largest shift the KS test lets
\* pass at 0.05 (p = 0.052), 7 of 10 the smallest it flags (p = 0.012)
HiCounts == {0, 6, 7}

\* what fetch_data can return: nothing at all (pd.DataFrame([])), a stable
\* batch, a shifted batch, and a malformed batch in which no row has a price
EmptyFrame == DataFrame({}, <<>>)
RawContents ==
  { EmptyFrame,
    Frame(BatchRows, 0, 0, 0, 0, AllColumns),
    Frame(BatchRows, 7, 7, 0, 0, AllColumns),
    Frame(BatchRows, 0, 0, 0, BatchRows, AllColumns) }

\* the frames detect_drift is called on directly
DetectFrames ==
  { Frame(n, a, b, g, 0, cols) :
      n \in {0} \cup ((MIN_SAMPLES - 1)..MaxRows),
      a \in HiCounts, b \in HiCounts, g \in 0..MaxNaN,
      cols \in {AllColumns, AllColumns \ {"price"}} }
  \cup {EmptyFrame}

(***************************************************************************)
(* data_loader: the batch store (PostgreSQL, S3) and the audit sink.       *)
(***************************************************************************)
Runs == 1..MaxRuns

Reverse(q) == [i \in DOMAIN q |-> q[Len(q) + 1 - i]]

RECURSIVE Concat(_, _)
Concat(entries, i) ==
  IF i > Len(entries) THEN <<>> ELSE entries[i].rows \o Concat(entries, i + 1)

\* save_to_postgres(df, 'raw_data'): the rows get the columns batch_id and
\* ingestion_timestamp and are appended; a frame without rows adds nothing
save_to_postgres(table, df, batch_id, now) ==
  IF Len(df.rows) = 0 THEN table
  ELSE Append(table,
         [batch_id |-> batch_id, ingestion_timestamp |-> now,
          columns |-> df.columns \cup {"batch_id"},
          rows |-> [i \in DOMAIN df.rows |-> [df.rows[i] EXCEPT !.batch_id = batch_id]]])

\* load_from_postgres('raw_data', batch_id=...): SELECT * [WHERE batch_id =
\* ...] ORDER BY id DESC; None when the query fails
load_from_postgres(table, batch_id, db_ok) ==
  IF ~db_ok THEN NoneDF
  ELSE LET hits == IF batch_id = NoneId THEN table
                   ELSE SelectSeq(table, LAMBDA e : e.batch_id = batch_id)
       IN DataFrame(AllColumns \cup {"batch_id"}, Reverse(Concat(hits, 1)))

\* load_raw_data(CURRENT_BATCH_KEY): None when the key is missing, raises
\* on any other failure, also when read_csv finds no columns to parse
load_raw_data(object, s3_ok) ==
  IF ~s3_ok THEN [raised |-> TRUE, df |-> NoneDF]
  ELSE IF object.none THEN [raised |-> FALSE, df |-> NoneDF]
  ELSE IF object.columns = {} THEN [raised |-> TRUE, df |-> NoneDF]
  ELSE [raised |-> FALSE, df |-> object]

RECURSIVE InsertByTimeDesc(_, _)
InsertByTimeDesc(sorted, e) ==
  IF sorted = <<>> THEN <<e>>
  ELSE IF e.ingestion_timestamp >= Head(sorted).ingestion_timestamp
       THEN <<e>> \o sorted
       ELSE <<Head(sorted)>> \o InsertByTimeDesc(Tail(sorted), e)

RECURSIVE OrderByTimeDesc(_, _, _)
OrderByTimeDesc(table, i, sorted) ==
  IF i > Len(table) THEN sorted
  ELSE OrderByTimeDesc(table, i + 1, InsertByTimeDesc(sorted, table[i]))

\* SELECT batch_id, MIN(ingestion_timestamp) ... GROUP BY batch_id
\* ORDER BY first_timestamp DESC LIMIT 2
LatestTwoBatches(table) ==
  LET sorted == OrderByTimeDesc(table, 1, <<>>)
  IN SubSeq(sorted, 1, IF Len(sorted) < 2 THEN Len(sorted) ELSE 2)

\* a selector that would always take batches.iloc[0]
ReferenceIndexLatest(batches) == 1

\* which row of the two latest batches the selector takes: batches.iloc[1]
ReferenceIndex(batches) == IF Len(batches) >= 2 THEN 2 ELSE 1

get_reference_data(table, db_ok) ==
  IF ~db_ok THEN NoneDF
  ELSE LET batches == LatestTwoBatches(table)
       IN IF Len(batches) = 0 THEN NoneDF
          ELSE load_from_postgres(table, batches[ReferenceIndex(batches)].batch_id, db_ok)

\* the record log_drift_result builds
DriftRecord(drift_detected, drift_score, features_with_drift, reference_batch_id, current_batch_id, action_taken, now) ==
  [timestamp |-> now, drift_detected |-> drift_detected,
   drift_score |-> drift_score, features_with_drift |-> features_with_drift,
   reference_batch_id |-> reference_batch_id,
   current_batch_id |-> current_batch_id, action_taken |-> action_taken]

\* a sink whose failure would reach the caller
LogDriftResultRaisesOnFailure(audit_ok) == ~audit_ok

\* except Exception as e: logging.error(...): nothing leaves log_drift_result
LogDriftResultRaises(audit_ok) == FALSE

\* log_drift_result: append to drift_history; a failure is logged and dropped
log_drift_result(history, record, audit_ok) ==
  IF audit_ok THEN Append(history, record) ELSE history

(***************************************************************************)
(* mlops_pipeline.check_drift. The body runs to a return or to an          *)
(* exception; F is the set of collaborators that fail during this call.    *)
(* The result carries the locals of the call and the record handed to      *)
(* log_drift_result, if any.                                               *)
(***************************************************************************)
FaultKinds == {"xcom", "db_current", "s3", "db_reference", "clean", "detect", "audit"}
FaultSets(budget) == {F \in SUBSET FaultKinds : Cardinality(F) <= budget}

Locals0 ==
  [current_batch_id |-> NoneId, loaded_batch_id |-> NoneId,
   reference_batch_id |-> NoneId, reference_failed |-> FALSE,
   first_run |-> FALSE,
   cleaner_ran |-> FALSE, detector_ran |-> FALSE,
   details |-> NoVerdict, logged |-> <<>>]

\* propagated: the exception leaves check_drift and fails the task
Raise(exc, locals) ==
  [raised |-> TRUE, exc |-> exc, propagated |-> TRUE, branch |-> "none",
   locals |-> locals]
Return(branch, locals) ==
  [raised |-> FALSE, exc |-> "none", propagated |-> FALSE, branch |-> branch,
   locals |-> locals]

\* the two branches swapped
GateDecisionSwapped(has_drift) == IF has_drift THEN "skip_training" ELSE "train_model"

\* the branch taken on the detector's answer
GateDecision(has_drift) == IF has_drift THEN "train_model" ELSE "skip_training"

\* the audit action logged with it
GateAction(has_drift) == IF has_drift THEN "retrain" ELSE "skip"

\* a FIRST RUN block that would skip
FirstRunSkips == "skip_training"

\* the branch of the FIRST RUN block
FirstRunDecision == "train_model"

\* a handler that would answer 'skip_training'
ErrorFallbackSkip == "skip_training"

\* the branch the exception handler returns
ErrorFallback == "train_model"

\* ref_batch_id = reference_df['batch_id'].iloc[0] if the column is there
RefBatchId(reference) ==
  IF "batch_id" \in reference.columns THEN reference.rows[1].batch_id
  ELSE UnknownId

\* the FIRST RUN block: log 'train_first_run', return 'train_model'
FirstRun(now, L) ==
  Return(FirstRunDecision,
         [L EXCEPT !.first_run = TRUE,
                   !.logged = <<DriftRecord(FALSE, RatZero, <<>>, NoneId,
                                            L.current_batch_id,
                                            "train_first_run", now)>>])

\* after detect_drift: log 'retrain' or 'skip' and return the branch
DriftDecision(has_drift, details, ref_batch_id, now, L) ==
  Return(GateDecision(has_drift),
         [L EXCEPT
            !.cleaner_ran = TRUE, !.detector_ran = TRUE,
            !.reference_batch_id = ref_batch_id,
            !.details = details,
            !.logged =
              <<DriftRecord(has_drift, details.max_drift_score,
                            IF has_drift THEN details.features_with_drift
                            ELSE <<>>,
                            ref_batch_id, L.current_batch_id,
                            GateAction(has_drift), now)>>])

\* has_drift, details = detect_drift(...); ref_batch_id = ...
DriftVerdict(details, ref_batch_id, now, L) ==
  DriftDecision(details.drift_detected, details, ref_batch_id, now, L)

\* from the reference in hand to the return statements
CompareWith(reference, current, F, now, L) ==
  IF IsNoneOrEmpty(reference) THEN FirstRun(now, L)
  ELSE IF "clean" \in F THEN Raise("clean", L)
  ELSE IF "detect" \in F THEN Raise("detect", [L EXCEPT !.cleaner_ran = TRUE])
  ELSE DriftVerdict(detect_drift(clean_data(reference), clean_data(current),
                                 P_VALUE_THRESHOLD),
                    RefBatchId(reference), now, L)

\* from get_reference_data() to the return statements
\* (reference_failed: the query of get_reference_data failed)
EvaluateDrift(table, current, F, now, L) ==
  CompareWith(get_reference_data(table, "db_reference" \notin F), current, F, now,
              [L EXCEPT !.reference_failed = "db_reference" \in F])

\* the current batch: from PostgreSQL, else from the S3 object
LoadCurrent(from_db, fallback, origin) ==
  IF ~IsNoneOrEmpty(from_db)
  THEN [raised |-> FALSE, exc |-> "none", df |-> from_db,
        loaded_batch_id |-> from_db.rows[1].batch_id]
  ELSE IF fallback.raised
  THEN [raised |-> TRUE, exc |-> "s3", df |-> NoneDF, loaded_batch_id |-> NoneId]
  ELSE IF IsNoneOrEmpty(fallback.df)
  THEN [raised |-> TRUE, exc |-> "ValueError", df |-> NoneDF,
        loaded_batch_id |-> NoneId]
  ELSE [raised |-> FALSE, exc |-> "none", df |-> fallback.df,
        loaded_batch_id |-> origin]

\* raise ValueError("No current data available"), or go on to the reference
WithCurrent(table, loaded, F, now, L) ==
  IF loaded.raised THEN Raise(loaded.exc, L)
  ELSE EvaluateDrift(table, loaded.df, F, now,
                     [L EXCEPT !.loaded_batch_id = loaded.loaded_batch_id])

\* the try block
CheckDriftBody(table, object, pulled, F, now) ==
  IF "xcom" \in F THEN Raise("xcom", Locals0)
  ELSE WithCurrent(table,
                   LoadCurrent(load_from_postgres(table, pulled, "db_current" \notin F),
                               load_raw_data(object.df, "s3" \notin F),
                               object.origin),
                   F, now, [Locals0 EXCEPT !.current_batch_id = pulled])

\* a handler that would catch ValueError only
ExceptValueErrorOnly(result) ==
  IF result.raised /\ result.exc = "ValueError"
  THEN [result EXCEPT !.propagated = FALSE, !.branch = ErrorFallback]
  ELSE result

\* except Exception as e: ... return 'train_model'
ExceptException(result) ==
  IF result.raised
  THEN [result EXCEPT !.propagated = FALSE, !.branch = ErrorFallback]
  ELSE result

\* the call of log_drift_result sits inside the try block: an exception
\* leaving it would be handled like any other
AuditCall(result, F) ==
  IF result.locals.logged # <<>> /\ LogDriftResultRaises("audit" \notin F)
  THEN Raise("audit", result.locals)
  ELSE result

check_drift(table, object, pulled, F, now) ==
  ExceptException(AuditCall(CheckDriftBody(table, object, pulled, F, now), F))

(***************************************************************************)
(* The DAG mlops_full_pipeline: start >> ingest_data >> check_drift >>     *)
(* {train_model, skip_training}. Runs are triggered by hand              *)
(* (schedule_interval=None) and nothing serialises them, so the tasks of   *)
(* different runs interleave.                                              *)
(***************************************************************************)
NoObject == [df |-> NoneDF, origin |-> NoneId]

NoCleaned ==
  [returned |-> FALSE, raised |-> FALSE, df |-> NoneDF, again |-> NoneDF]

CleanIdle ==
  /\ raw_df = NoneDF
  /\ cleaned = NoCleaned

\* a train_and_log_model call that has not started its MLflow run
Trainings == 1..MaxTrainings

NoTraining ==
  [pc |-> "fit", r2 |-> 0, rmse |-> 0, new_version |-> NoneId,
   promoted_to_production |-> "unset",
   promotion_reason |-> [text |-> "unset", names |-> {}]]

TrainIdle ==
  /\ registry = <<>>
  /\ trainer = [t \in Trainings |-> NoTraining]

\* the module globals as the import leaves them
NoModel ==
  [model |-> NoneId, state_means |-> NoneId, explainer |-> NoneId,
   model_version |-> NoneId, model_stage |-> NoneId, model_run_id |-> NoneId,
   feature_names |-> NoneId]

NoLoad == [pc |-> "idle", prod_version |-> NoneId]

NoRequest == [at |-> 0, seen |-> NoModel]

ServeIdle ==
  /\ api = NoModel
  /\ loader = NoLoad
  /\ reader = NoRequest

\* the tasks after check_drift, none of them scheduled yet
NoTasks ==
  [train_model |-> "none", reload_api |-> "none", skip_training |-> "none",
   end_pipeline |-> "none", try_number |-> 0]

DagIdle ==
  /\ clean_table = <<>>
  /\ dag = [r \in Runs |-> NoTasks]

\* no request answered, nothing logged
NoResponse ==
  [endpoint |-> "none", status_code |-> 0, predicted |-> FALSE, logged |-> FALSE,
   model |-> NoneId, explainer |-> NoneId]

EndpointIdle ==
  /\ response = NoResponse
  /\ inference_logs = 0

NoGate ==
  [ran |-> FALSE, raised |-> FALSE, exc |-> "none", branch |-> "none",
   audit_ok |-> FALSE, locals |-> Locals0]

NoReturn ==
  [returned |-> FALSE, raised |-> FALSE, has_drift |-> FALSE, details |-> NoVerdict]

\* the parts of the system a specification leaves alone
DetectIdle ==
  /\ reference_df = NoneDF
  /\ current_df = NoneDF
  /\ p_value_threshold = P_VALUE_THRESHOLD
  /\ verdict = NoReturn

PipelineIdle ==
  /\ raw_data = <<>>
  /\ s3 = NoObject
  /\ drift_history = <<>>
  /\ xcom = [r \in Runs |-> NoneId]
  /\ pc = [r \in Runs |-> "ingest_data"]
  /\ faults = 0
  /\ gate = [r \in Runs |-> NoGate]
  /\ clock = 1

Init ==
  /\ raw_data = <<>>
  /\ s3 = NoObject
  /\ drift_history = <<>>
  /\ xcom = [r \in Runs |-> NoneId]
  /\ pc = [r \in Runs |-> "ingest_data"]
  /\ faults = 0
  /\ gate = [r \in Runs |-> NoGate]
  /\ clock = 1
  /\ DetectIdle
  /\ CleanIdle
  /\ TrainIdle
  /\ ServeIdle
  /\ DagIdle
  /\ EndpointIdle

\* task ingest_data with its retries: fetch_data, save_to_postgres,
\* save_raw_data (S3 backup, non-critical). An attempt that fails at the
\* fetch or at the insert has stored nothing, so the task either stores the
\* batch once or fails for good. Runs are numbered in the order their
\* ingest_data completes.
IngestData(r) ==
  /\ pc[r] = "ingest_data"
  /\ \A q \in Runs : q < r => pc[q] # "ingest_data"
  /\ \E df \in RawContents, ok \in BOOLEAN, s3_ok \in BOOLEAN :
       LET cost == (IF ok THEN 0 ELSE 1) + (IF ok /\ ~s3_ok THEN 1 ELSE 0)
       IN /\ faults + cost <= MaxFaults
          /\ faults' = faults + cost
          /\ IF ~ok
             THEN /\ pc' = [pc EXCEPT ![r] = "failed"]
                  /\ UNCHANGED <<raw_data, s3, xcom, clock>>
             ELSE /\ raw_data' = save_to_postgres(raw_data, df, clock, clock)
                  /\ s3' = IF s3_ok THEN [df |-> df, origin |-> clock] ELSE s3
                  /\ xcom' = [xcom EXCEPT ![r] = clock]
                  /\ pc' = [pc EXCEPT ![r] = "check_drift"]
                  /\ clock' = clock + 1
  /\ UNCHANGED <<drift_history, gate, detectVars, cleanVars, trainVars,
                 serveVars, dagVars, endpointVars>>

\* task check_drift (BranchPythonOperator): the value returned is the task
\* the run follows
CheckDrift(r) ==
  /\ pc[r] = "check_drift"
  /\ \E F \in FaultSets(MaxFaults - faults) :
       \E res \in {check_drift(raw_data, s3, xcom[r], F, clock)} :
          /\ gate' = [gate EXCEPT ![r] =
                        [ran |-> TRUE, raised |-> res.raised, exc |-> res.exc,
                         branch |-> res.branch, audit_ok |-> "audit" \notin F,
                         locals |-> res.locals]]
          /\ drift_history' =
               IF res.locals.logged = <<>> THEN drift_history
               ELSE log_drift_result(drift_history, res.locals.logged[1],
                                     "audit" \notin F)
          /\ pc' = [pc EXCEPT ![r] = IF res.propagated THEN "failed" ELSE res.branch]
          /\ faults' = faults + Cardinality(F)
  /\ UNCHANGED <<raw_data, s3, xcom, clock, detectVars, cleanVars, trainVars,
                 serveVars, dagVars, endpointVars>>

Next == \E r \in Runs : IngestData(r) \/ CheckDrift(r)

Spec == Init /\ [][Next]_vars

(***************************************************************************)
(* detect_drift on its own, on every pair of hand-made frames.             *)
(***************************************************************************)
InitDetect ==
  /\ PipelineIdle
  /\ reference_df \in DetectFrames
  /\ current_df \in DetectFrames
  /\ p_value_threshold = P_VALUE_THRESHOLD
  /\ verdict = NoReturn
  /\ CleanIdle
  /\ TrainIdle
  /\ ServeIdle
  /\ DagIdle
  /\ EndpointIdle

DetectDrift ==
  /\ ~verdict.returned
  /\ LET details == detect_drift(reference_df, current_df, p_value_threshold)
     IN verdict' = [returned |-> TRUE,
                    raised |-> DetectRaises(reference_df, current_df),
                    has_drift |-> details.drift_detected,
                    details |-> details]
  /\ UNCHANGED <<reference_df, current_df, p_value_threshold, pipelineVars,
                 cleanVars, trainVars, serveVars, dagVars, endpointVars>>

NextDetect == DetectDrift

SpecDetect == InitDetect /\ [][NextDetect]_vars

(***************************************************************************)
(* model_training.train_and_log_model against the MLflow Model Registry.   *)
(* r2 is in hundredths. The run id of call t is t. A version of            *)
(* real_estate_model is [version, run_id, current_stage]; versions are     *)
(* numbered by their place in the registry.                                *)
(***************************************************************************)
\* metrics a fitted model can come out with: below, at and above each
\* threshold
R2Values == {20, R2_THRESHOLD, 50}
RmseValues == {600000, RMSE_THRESHOLD, 800000}

\* mlflow.sklearn.log_model(..., registered_model_name=MODEL_NAME)
register_model(versions, run_id) ==
  Append(versions, [version |-> Len(versions) + 1, run_id |-> run_id,
                    current_stage |-> "None"])

\* client.search_model_versions(f"run_id='{run_id}'")
search_model_versions(versions, run_id) ==
  SelectSeq(versions, LAMBDA v : v.run_id = run_id)

\* a call that would leave the versions already in the stage where they are
KeepExistingVersions == FALSE

\* archive_existing_versions=True
archive_existing_versions == TRUE

\* client.transition_model_version_stage(name, version, stage,
\* archive_existing_versions): one relabeling of the registry
transition_model_version_stage(versions, version, stage, archive) ==
  [i \in DOMAIN versions |->
     IF versions[i].version = version
     THEN [versions[i] EXCEPT !.current_stage = stage]
     ELSE IF archive /\ versions[i].current_stage = stage
     THEN [versions[i] EXCEPT !.current_stage = "Archived"]
     ELSE versions[i]]

\* a test that would promote on either condition
MeetsEitherThreshold(r2, rmse) == r2 >= R2_THRESHOLD \/ rmse <= RMSE_THRESHOLD

\* r2 >= R2_THRESHOLD and rmse <= RMSE_THRESHOLD
MeetsThresholds(r2, rmse) == r2 >= R2_THRESHOLD /\ rmse <= RMSE_THRESHOLD

\* mlflow.log_param("promotion_reason", ...): the text, and the metrics the
\* text names
MetricsMetThresholds == [text |-> "Metrics met thresholds", names |-> {}]
MetricValues == [text |-> "R2=..., RMSE=$...", names |-> {"R2", "RMSE"}]

\* the block under "Model promotion logic", from the version in hand on
PromotionOutcome(versions, run, new_version) ==
  IF new_version = NoneId
  THEN [registry |-> versions, run |-> [run EXCEPT !.pc = "done"]]
  ELSE IF MeetsThresholds(run.r2, run.rmse)
  THEN [registry |->
          transition_model_version_stage(versions, new_version, "Production",
                                         archive_existing_versions),
        run |-> [run EXCEPT !.pc = "done", !.new_version = new_version,
                            !.promoted_to_production = "True",
                            !.promotion_reason = MetricsMetThresholds]]
  ELSE [registry |-> versions,
        run |-> [run EXCEPT !.pc = "done", !.new_version = new_version,
                            !.promoted_to_production = "False",
                            !.promotion_reason = MetricValues]]

\* new_version = model_versions[0].version if model_versions else None
NewVersion(model_versions) ==
  IF Len(model_versions) > 0 THEN model_versions[1].version ELSE NoneId

\* the fit, the metrics and log_model of call t; a failure is re-raised
FitAndLog(t) ==
  /\ trainer[t].pc = "fit"
  /\ \/ /\ trainer' = [trainer EXCEPT ![t].pc = "failed"]
        /\ UNCHANGED registry
     \/ \E r2 \in R2Values, rmse \in RmseValues :
          /\ registry' = register_model(registry, t)
          /\ trainer' = [trainer EXCEPT ![t].pc = "promotion_check",
                                         ![t].r2 = r2, ![t].rmse = rmse]
  /\ UNCHANGED <<pipelineVars, detectVars, cleanVars, serveVars, dagVars, endpointVars>>

\* the promotion check of call t
PromotionCheck(t) ==
  /\ trainer[t].pc = "promotion_check"
  /\ \E out \in {PromotionOutcome(registry, trainer[t],
                                   NewVersion(search_model_versions(registry, t)))} :
       /\ registry' = out.registry
       /\ trainer' = [trainer EXCEPT ![t] = out.run]
  /\ UNCHANGED <<pipelineVars, detectVars, cleanVars, serveVars, dagVars, endpointVars>>

NextTrain == \E t \in Trainings : FitAndLog(t) \/ PromotionCheck(t)

SpecTrain == Init /\ [][NextTrain]_vars

(***************************************************************************)
(* The API process (main.py). Its endpoints are plain def functions, which *)
(* FastAPI runs on a thread pool, so a /reload and a /predict run side by  *)
(* side and interleave between any two statements. Each global holds the   *)
(* version of real_estate_model its value was loaded from (NoneId: None or *)
(* the built-in default).                                                  *)
(***************************************************************************)
\* the globals after a complete load of one version
Loaded(v) ==
  [model |-> v, state_means |-> v, explainer |-> v, model_version |-> v,
   model_stage |-> v, model_run_id |-> v, feature_names |-> v]

\* client.get_latest_versions(MODEL_NAME, stages=["Production"])
get_latest_versions(versions, stage) ==
  LET hits == {i \in DOMAIN versions : versions[i].current_stage = stage}
  IN IF hits = {} THEN <<>>
     ELSE <<versions[CHOOSE i \in hits : \A j \in hits : j <= i]>>

\* a training run whose candidate is promoted: log_model, then
\* transition_model_version_stage
NewProduction ==
  /\ Len(registry) < MaxVersions
  /\ registry' = transition_model_version_stage(
                   register_model(registry, Len(registry) + 1),
                   Len(registry) + 1, "Production", archive_existing_versions)
  /\ UNCHANGED <<trainer, pipelineVars, detectVars, cleanVars, serveVars, dagVars, endpointVars>>

\* POST /reload arrives
Reload ==
  /\ loader.pc = "idle"
  /\ loader' = [loader EXCEPT !.pc = "get_latest_versions"]
  /\ UNCHANGED <<api, reader, pipelineVars, detectVars, cleanVars, trainVars, dagVars, endpointVars>>

\* model_version and model_stage as load_latest_model_from_s3 sets them
LATEST == -1      \* "latest"
FALLBACK == -2    \* "Fallback"

\* load_latest_model_from_s3: the run whose model.pkl was modified last; every
\* training run that logged a model has one
latest_run(versions) == IF versions = <<>> THEN NoneId ELSE Len(versions)

\* one statement of load_production_model, or of load_latest_model_from_s3
\* where it is called for want of a Production version; s3_ok: the S3 read
\* of the statement succeeds
LoadStatement(globals, at, versions, s3_ok) ==
  IF at.pc = "get_latest_versions"
  THEN IF get_latest_versions(versions, "Production") = <<>>
       THEN [api |-> globals, loader |-> [at EXCEPT !.pc = "list_objects_v2"]]
       ELSE [api |-> globals,
             loader |-> [at EXCEPT !.pc = "model_version",
                                   !.prod_version =
                                     get_latest_versions(versions, "Production")[1].version]]
  ELSE IF at.pc = "list_objects_v2"
  THEN IF ~s3_ok \/ latest_run(versions) = NoneId
       THEN [api |-> globals, loader |-> [at EXCEPT !.pc = "idle"]]
       ELSE [api |-> globals,
             loader |-> [at EXCEPT !.pc = "latest_run",
                                   !.prod_version = latest_run(versions)]]
  ELSE IF at.pc = "latest_run"
  THEN [api |-> [globals EXCEPT !.model_run_id = at.prod_version],
        loader |-> [at EXCEPT !.pc = "latest"]]
  ELSE IF at.pc = "latest"
  THEN [api |-> [globals EXCEPT !.model_version = LATEST],
        loader |-> [at EXCEPT !.pc = "Fallback"]]
  ELSE IF at.pc = "Fallback"
  THEN [api |-> [globals EXCEPT !.model_stage = FALLBACK],
        loader |-> [at EXCEPT !.pc = "model"]]
  ELSE IF at.pc = "model_version"
  THEN [api |-> [globals EXCEPT !.model_version = at.prod_version],
        loader |-> [at EXCEPT !.pc = "model_stage"]]
  ELSE IF at.pc = "model_stage"
  THEN [api |-> [globals EXCEPT !.model_stage = at.prod_version],
        loader |-> [at EXCEPT !.pc = "model_run_id"]]
  ELSE IF at.pc = "model_run_id"
  THEN [api |-> [globals EXCEPT !.model_run_id = at.prod_version],
        loader |-> [at EXCEPT !.pc = "model"]]
  ELSE IF at.pc = "model"
  THEN IF s3_ok
       THEN [api |-> [globals EXCEPT !.model = at.prod_version],
             loader |-> [at EXCEPT !.pc = "state_means"]]
       ELSE [api |-> globals, loader |-> [at EXCEPT !.pc = "idle"]]
  ELSE IF at.pc = "state_means"
  THEN [api |-> [globals EXCEPT !.state_means = IF s3_ok THEN at.prod_version ELSE NoneId],
        loader |-> [at EXCEPT !.pc = "feature_names"]]
  ELSE IF at.pc = "feature_names"
  THEN [api |-> [globals EXCEPT !.feature_names = IF s3_ok THEN at.prod_version ELSE NoneId],
        loader |-> [at EXCEPT !.pc = "explainer"]]
  ELSE [api |-> [globals EXCEPT !.explainer = IF s3_ok THEN at.prod_version ELSE NoneId],
        loader |-> [at EXCEPT !.pc = "idle"]]

LoadProductionModel ==
  /\ loader.pc # "idle"
  /\ \E s3_ok \in BOOLEAN :
       \E out \in {LoadStatement(api, loader, registry, s3_ok)} :
         /\ api' = out.api
         /\ loader' = out.loader
  /\ UNCHANGED <<reader, pipelineVars, detectVars, cleanVars, trainVars, dagVars, endpointVars>>

\* the globals predict reads, in the order it reads them: model (the None
\* test), state_means and feature_names (prepare_features), model
\* (model.predict), model_version, model_stage, model_run_id (the response)
PredictReads ==
  <<"model", "state_means", "feature_names", "model", "model_version",
    "model_stage", "model_run_id">>

\* one read of POST /predict
Predict ==
  /\ reader.at < Len(PredictReads)
  /\ reader' = [at |-> reader.at + 1,
                seen |-> [reader.seen EXCEPT ![PredictReads[reader.at + 1]] =
                                               api[PredictReads[reader.at + 1]]]]
  /\ UNCHANGED <<api, loader, pipelineVars, detectVars, cleanVars, trainVars, dagVars, endpointVars>>

\* after startup: version 1 is in Production and loaded
InitServe ==
  /\ PipelineIdle
  /\ DetectIdle
  /\ CleanIdle
  /\ registry = transition_model_version_stage(register_model(<<>>, 1), 1,
                                                "Production", archive_existing_versions)
  /\ trainer = [t \in Trainings |-> NoTraining]
  /\ api = Loaded(1)
  /\ loader = NoLoad
  /\ reader = NoRequest
  /\ DagIdle
  /\ EndpointIdle

NextServe == NewProduction \/ Reload \/ LoadProductionModel \/ Predict

SpecServe == InitServe /\ [][NextServe]_vars

(***************************************************************************)
(* The tasks after check_drift: train_model, reload_api, skip_training and *)
(* end_pipeline, and the rules by which the Airflow scheduler runs, skips  *)
(* or fails them. The state of ingest_data and check_drift is read off pc  *)
(* and gate; pc[r] stays at the branch check_drift returned. dag records   *)
(* the tasks that ran; the tasks the scheduler skips are read off the      *)
(* states of the tasks before them.                                        *)
(***************************************************************************)
RETRIES == 1       \* default_args['retries']

\* task states that let no downstream task run
Unsuccessful == {"failed", "upstream_failed"}

\* start >> ingest >> drift_check; drift_check >> train >> reload_api_task
\* >> end; drift_check >> skip_training >> end
upstream_task_ids(task) ==
  IF task \in {"train_model", "skip_training"} THEN {"check_drift"}
  ELSE IF task = "reload_api" THEN {"train_model"}
  ELSE {"reload_api", "skip_training"}

trigger_rule(task) ==
  IF task = "end_pipeline" THEN "none_failed_min_one_success" ELSE "all_success"

\* what a trigger rule makes of the states of the finished upstream tasks
TriggerRuleOutcome(rule, states) ==
  IF states \cap Unsuccessful # {} THEN "upstream_failed"
  ELSE IF rule = "all_success"
  THEN IF states = {"success"} THEN "run" ELSE "skipped"
  ELSE IF "success" \in states THEN "run" ELSE "skipped"

\* a branch operator that would let both of its downstream tasks run
FollowEveryBranch(r, task) == FALSE

\* BranchPythonOperator: once check_drift has returned, the downstream task
\* it did not return is skipped
SkippedByBranch(r, task) ==
  /\ task \in {"train_model", "skip_training"}
  /\ pc[r] \in {"train_model", "skip_training"}
  /\ pc[r] # task

\* the state of a task of run r, "none" while it has not finished. A task
\* is skipped or upstream_failed as soon as the tasks before it say so.
RECURSIVE TaskState(_, _)
TaskState(r, task) ==
  IF task = "ingest_data"
  THEN IF pc[r] = "ingest_data" THEN "none"
       ELSE IF pc[r] = "failed" /\ ~gate[r].ran THEN "failed"
       ELSE "success"
  ELSE IF task = "check_drift"
  THEN IF pc[r] \in {"ingest_data", "check_drift"} THEN "none"
       ELSE IF pc[r] = "failed"
       THEN IF gate[r].ran THEN "failed" ELSE "upstream_failed"
       ELSE "success"
  ELSE IF dag[r][task] # "none" THEN dag[r][task]
  ELSE IF SkippedByBranch(r, task) THEN "skipped"
  ELSE IF \E u \in upstream_task_ids(task) : TaskState(r, u) = "none" THEN "none"
  ELSE IF TriggerRuleOutcome(trigger_rule(task),
                             {TaskState(r, u) : u \in upstream_task_ids(task)}) = "run"
  THEN "none"
  ELSE TriggerRuleOutcome(trigger_rule(task),
                          {TaskState(r, u) : u \in upstream_task_ids(task)})

\* the scheduler starts a task: its upstream tasks have finished and its
\* trigger rule is met
Schedulable(r, task) ==
  /\ TaskState(r, task) = "none"
  /\ \A u \in upstream_task_ids(task) : TaskState(r, u) # "none"

\* save_to_postgres(df_clean, 'clean_data', batch_id=...): the rows get the
\* columns source_batch_id and processing_timestamp and are appended
save_clean_data(table, df, batch_id, now) ==
  IF Len(df.rows) = 0 THEN table
  ELSE Append(table, [source_batch_id |-> batch_id, processing_timestamp |-> now,
                      rows |-> Len(df.rows)])

\* a train_model that would append the cleaned rows to raw_data
SaveCleanedToRawData(raw, clean, df, batch_id, now) ==
  [raw_data |-> save_to_postgres(raw, df, batch_id, now), clean_data |-> clean]

\* the two tables after save_to_postgres(df_clean, 'clean_data', ...)
SaveCleaned(raw, clean, df, batch_id, now) ==
  [raw_data |-> raw, clean_data |-> save_clean_data(clean, df, batch_id, now)]

\* train_and_log_model(df_clean) cannot get through without a price column
\* and rows to split
Trainable(df) == "price" \in df.columns /\ Len(df.rows) > 0

\* train_and_log_model run to its end: log_model, then the promotion check
TrainAndLog(versions, r2, rmse) ==
  PromotionOutcome(register_model(versions, Len(versions) + 1),
                   [NoTraining EXCEPT !.r2 = r2, !.rmse = rmse],
                   Len(versions) + 1).registry

TrainFaultKinds == {"db_current", "s3", "save", "train"}

\* (r2, rmse) of a candidate that is not promoted, and of one that is
CandidateMetrics == {<<20, 800000>>, <<R2_THRESHOLD, RMSE_THRESHOLD>>}

\* one attempt of train_model. raised: the attempt ended in an exception
TrainAttempt(raw, clean, versions, loaded, F, now, pulled, r2, rmse) ==
  IF loaded.raised
  THEN [raised |-> TRUE, raw_data |-> raw, clean_data |-> clean,
        registry |-> versions]
  ELSE IF "save" \in F
  THEN [raised |-> TRUE, raw_data |-> raw, clean_data |-> clean,
        registry |-> versions]
  ELSE IF "train" \in F \/ ~Trainable(clean_data(loaded.df))
  THEN [raised |-> TRUE,
        raw_data |-> SaveCleaned(raw, clean, clean_data(loaded.df), pulled, now).raw_data,
        clean_data |-> SaveCleaned(raw, clean, clean_data(loaded.df), pulled, now).clean_data,
        registry |-> versions]
  ELSE [raised |-> FALSE,
        raw_data |-> SaveCleaned(raw, clean, clean_data(loaded.df), pulled, now).raw_data,
        clean_data |-> SaveCleaned(raw, clean, clean_data(loaded.df), pulled, now).clean_data,
        registry |-> TrainAndLog(versions, r2, rmse)]

\* retries=1: a failed first attempt is tried again
UpForRetry(try_number) == try_number < RETRIES

\* task train_model, one attempt
TrainModel(r) ==
  /\ Schedulable(r, "train_model")
  /\ \E F \in {G \in SUBSET TrainFaultKinds : Cardinality(G) <= MaxFaults - faults},
        metrics \in CandidateMetrics :
       \E out \in {TrainAttempt(raw_data, clean_table, registry,
                                LoadCurrent(load_from_postgres(raw_data, xcom[r], "db_current" \notin F),
                                            load_raw_data(s3.df, "s3" \notin F),
                                            s3.origin),
                                F, clock, xcom[r], metrics[1], metrics[2])} :
         /\ raw_data' = out.raw_data
         /\ clean_table' = out.clean_data
         /\ registry' = out.registry
         /\ faults' = faults + Cardinality(F)
         /\ dag' = [dag EXCEPT
                      ![r].try_number = @ + 1,
                      ![r].train_model =
                        IF ~out.raised THEN "success"
                        ELSE IF UpForRetry(dag[r].try_number) THEN "none"
                        ELSE "failed"]
  /\ UNCHANGED <<s3, drift_history, xcom, pc, gate, clock, trainer, detectVars,
                 cleanVars, serveVars, endpointVars>>

\* load_production_model run from its first statement to its return; the S3
\* read of the statement fail_at fails
RECURSIVE RunLoad(_, _, _, _)
RunLoad(globals, at, versions, fail_at) ==
  IF at.pc = "idle" THEN globals
  ELSE RunLoad(LoadStatement(globals, at, versions, at.pc # fail_at).api,
               LoadStatement(globals, at, versions, at.pc # fail_at).loader,
               versions, fail_at)

LoadFailures ==
  {"none", "list_objects_v2", "model", "state_means", "feature_names", "explainer"}

\* the failures a reload counts for: no connection, or one failed S3 read
ReloadFaults(connected, fail_at) ==
  IF ~connected \/ fail_at # "none" THEN 1 ELSE 0

\* task reload_api: POST /reload; whatever the answer, or without one, the
\* task returns "reload_completed"
ReloadApi(r) ==
  /\ Schedulable(r, "reload_api")
  /\ loader.pc = "idle"
  /\ \E connected \in BOOLEAN, fail_at \in LoadFailures :
       /\ faults + ReloadFaults(connected, fail_at) <= MaxFaults
       /\ faults' = faults + ReloadFaults(connected, fail_at)
       /\ api' = IF connected
                 THEN RunLoad(api, [loader EXCEPT !.pc = "get_latest_versions"],
                              registry, fail_at)
                 ELSE api
  /\ dag' = [dag EXCEPT ![r].reload_api = "success"]
  /\ UNCHANGED <<clean_table, loader, reader, raw_data, s3, drift_history, xcom,
                 pc, gate, clock, detectVars, cleanVars, trainVars, endpointVars>>

\* task skip_training
SkipTraining(r) ==
  /\ Schedulable(r, "skip_training")
  /\ dag' = [dag EXCEPT ![r].skip_training = "success"]
  /\ UNCHANGED <<clean_table, pipelineVars, detectVars, cleanVars, trainVars,
                 serveVars, endpointVars>>

\* task end_pipeline (DummyOperator)
EndPipeline(r) ==
  /\ Schedulable(r, "end_pipeline")
  /\ dag' = [dag EXCEPT ![r].end_pipeline = "success"]
  /\ UNCHANGED <<clean_table, pipelineVars, detectVars, cleanVars, trainVars,
                 serveVars, endpointVars>>

\* the runs followed to end_pipeline
DagRuns == 1..MaxDagRuns

NextDag ==
  \E r \in DagRuns :
    \/ IngestData(r)
    \/ CheckDrift(r)
    \/ TrainModel(r)
    \/ ReloadApi(r)
    \/ SkipTraining(r)
    \/ EndPipeline(r)

SpecDag == Init /\ [][NextDag]_vars

(***************************************************************************)
(* The endpoints of the API that need a model. A response records the      *)
(* status code, whether model.predict returned, whether the inference was  *)
(* logged, and the globals model and explainer as the handler found them.  *)
(***************************************************************************)
\* a handler that would go on without a model
ModelNotLoadedIgnored(globals) == FALSE

\* if model is None
ModelNotLoaded(globals) == globals.model = NoneId

\* if explainer is None
ExplainerNotAvailable(globals) == globals.explainer = NoneId

\* model.predict(df) returns: there is a model, and the call does not raise
Predicts(globals, predict_ok) == globals.model # NoneId /\ predict_ok

Answer(endpoint, status_code, predicted, logged, globals) ==
  [endpoint |-> endpoint, status_code |-> status_code, predicted |-> predicted,
   logged |-> logged, model |-> globals.model, explainer |-> globals.explainer]

\* GET /ready
ready(globals) ==
  IF ModelNotLoaded(globals) THEN Answer("ready", 503, FALSE, FALSE, globals)
  ELSE Answer("ready", 200, FALSE, FALSE, globals)

\* POST /predict; log_ok: log_inference wrote its row
predict(globals, predict_ok, log_ok) ==
  IF ModelNotLoaded(globals) THEN Answer("predict", 503, FALSE, FALSE, globals)
  ELSE IF ~Predicts(globals, predict_ok)
  THEN Answer("predict", 500, FALSE, FALSE, globals)
  ELSE Answer("predict", 200, TRUE, log_ok, globals)

\* POST /explain; shap_ok: explainer.shap_values and what follows do not raise
explain(globals, predict_ok, shap_ok) ==
  IF ModelNotLoaded(globals) THEN Answer("explain", 503, FALSE, FALSE, globals)
  ELSE IF ExplainerNotAvailable(globals)
  THEN Answer("explain", 503, FALSE, FALSE, globals)
  ELSE IF ~Predicts(globals, predict_ok)
  THEN Answer("explain", 500, FALSE, FALSE, globals)
  ELSE Answer("explain", IF shap_ok THEN 200 ELSE 500, TRUE, FALSE, globals)

\* POST /batch_predict: a failed item becomes an error entry of the answer
batch_predict(globals, predict_ok) ==
  IF ModelNotLoaded(globals)
  THEN Answer("batch_predict", 503, FALSE, FALSE, globals)
  ELSE Answer("batch_predict", 200, Predicts(globals, predict_ok), FALSE, globals)

Ready ==
  /\ response' = ready(api)
  /\ UNCHANGED <<inference_logs, pipelineVars, detectVars, cleanVars, trainVars,
                 serveVars, dagVars>>

PredictRequest ==
  /\ inference_logs < MaxInferences
  /\ \E predict_ok \in BOOLEAN, log_ok \in BOOLEAN :
       /\ response' = predict(api, predict_ok, log_ok)
       /\ inference_logs' = IF predict(api, predict_ok, log_ok).logged
                             THEN inference_logs + 1 ELSE inference_logs
  /\ UNCHANGED <<pipelineVars, detectVars, cleanVars, trainVars, serveVars, dagVars>>

Explain ==
  /\ \E predict_ok \in BOOLEAN, shap_ok \in BOOLEAN :
       response' = explain(api, predict_ok, shap_ok)
  /\ UNCHANGED <<inference_logs, pipelineVars, detectVars, cleanVars, trainVars,
                 serveVars, dagVars>>

BatchPredict ==
  /\ \E predict_ok \in BOOLEAN : response' = batch_predict(api, predict_ok)
  /\ UNCHANGED <<inference_logs, pipelineVars, detectVars, cleanVars, trainVars,
                 serveVars, dagVars>>

\* the API from its import on: trainings promote versions, /reload and the
\* startup load run statement by statement, requests are answered
NextEndpoints ==
  \/ NewProduction
  \/ Reload
  \/ LoadProductionModel
  \/ Ready
  \/ PredictRequest
  \/ Explain
  \/ BatchPredict

SpecEndpoints == Init /\ [][NextEndpoints]_vars

(***************************************************************************)
(* clean_data on its own. A small batch has one probe row, whose value in  *)
(* one column is missing, not numeric, or at or beyond a bound; it may     *)
(* hold an exact duplicate, and its acre_lot may be missing in one row or  *)
(* in all. A large batch has pairwise different prices and house sizes.    *)
(***************************************************************************)
\* the bounds of a column: [low, high]; price has no upper bound in the code
ColumnBounds(col) ==
  IF col = "bed" THEN <<BED_MIN, BED_MAX>>
  ELSE IF col = "bath" THEN <<BATH_MIN, BATH_MAX>>
  ELSE IF col = "acre_lot" THEN <<ACRE_MIN, ACRE_MAX>>
  ELSE IF col = "house_size" THEN <<SIZE_MIN, SIZE_MAX>>
  ELSE <<1, 1000000000>>

ProbeValues(col) ==
  {NaN, NonNumeric, 0 - 5, ColumnBounds(col)[1] - 1, ColumnBounds(col)[1],
   ColumnBounds(col)[2], ColumnBounds(col)[2] + 1}

\* row i of a batch: a valid listing, different from the other rows
ListingRow(i, cols) ==
  LET val(c, v) == IF c \in cols THEN v ELSE NaN
  IN [id         |-> i,
      batch_id   |-> NoneId,
      bed        |-> val("bed", 3),
      bath       |-> val("bath", 20),
      acre_lot   |-> val("acre_lot", 500 + 2 * i),
      house_size |-> val("house_size", 1000 + 10 * i),
      price      |-> val("price", 100000 + 1000 * i)]

AcrePatterns == {"present", "one_missing", "all_missing"}

SmallRow(i, col, v, dup, acre, cols) ==
  LET k == IF dup /\ i = 2 THEN 3 ELSE i
      base == ListingRow(k, cols)
      probed == IF k = 1 /\ col \in cols THEN [base EXCEPT ![col] = v] ELSE base
  IN IF "acre_lot" \in cols
        /\ (acre = "all_missing" \/ (acre = "one_missing" /\ k = 4))
     THEN [probed EXCEPT !.acre_lot = NaN]
     ELSE probed

ProbeFrames(col) ==
  { DataFrame(cols, [i \in 1..SmallRows |-> SmallRow(i, col, v, dup, acre, cols)]) :
      v \in ProbeValues(col), dup \in BOOLEAN, acre \in AcrePatterns,
      cols \in {AllColumns, AllColumns \ {"price"}, AllColumns \ {"acre_lot"}} }

SmallFrames == UNION {ProbeFrames(col) : col \in Range(numerical_features)}

LargeFrames ==
  { DataFrame(AllColumns, [i \in 1..n |-> ListingRow(i, AllColumns)]) :
      n \in {OUTLIER_MIN_ROWS + 1, LargeRows} }

\* an extreme price, a hundred times the other prices of its batch
EXTREME_PRICE == 20000000

\* row i of a batch of n rows whose last row has the extreme price; the
\* other rows are listings with different prices and sizes (varied), or
\* with one price and one size
OutlierRow(i, n, varied) ==
  IF i = n THEN [ListingRow(i, AllColumns) EXCEPT !.price = EXTREME_PRICE]
  ELSE IF varied THEN ListingRow(i, AllColumns)
  ELSE [ListingRow(i, AllColumns) EXCEPT !.price = ListingRow(1, AllColumns).price,
                                         !.house_size = ListingRow(1, AllColumns).house_size]

OutlierFrames ==
  { DataFrame(AllColumns, [i \in 1..n |-> OutlierRow(i, n, varied)]) :
      n \in {OUTLIER_MIN_ROWS + 1, LargeRows}, varied \in BOOLEAN }

\* clean_data has no raise statement and does not call validate_data
clean_data_raises(df) == FALSE

CleanFrames == SmallFrames \cup LargeFrames \cup OutlierFrames

InitClean ==
  /\ PipelineIdle
  /\ DetectIdle
  /\ raw_df \in CleanFrames
  /\ cleaned = NoCleaned
  /\ TrainIdle
  /\ ServeIdle
  /\ DagIdle
  /\ EndpointIdle

\* df_clean = clean_data(df), and clean_data again on what it returned
CleanData ==
  /\ ~cleaned.returned
  /\ \E out \in {clean_data(raw_df)} :
       cleaned' = [returned |-> TRUE, raised |-> clean_data_raises(raw_df),
                   df |-> out, again |-> clean_data(out)]
  /\ UNCHANGED <<raw_df, pipelineVars, detectVars, trainVars, serveVars, dagVars, endpointVars>>

NextClean == CleanData

SpecClean == InitClean /\ [][NextClean]_vars

(***************************************************************************)
(* detect_drift with the threshold as an argument: the default 0.05, and a *)
(* threshold that is itself the p-value of a sample pair, so that a        *)
(* feature's p-value can equal the threshold.                              *)
(***************************************************************************)
ThresholdCounts == HiCounts \cup {MIN_SAMPLES}

ThresholdFrames ==
  { Frame(MIN_SAMPLES, a, b, 0, 0, AllColumns) :
      a \in ThresholdCounts, b \in ThresholdCounts }

\* the p-value of 7 shifted values of 10 against none of 10
AttainedPValue ==
  ks_2samp(DropNaValues(Frame(MIN_SAMPLES, 7, 0, 0, 0, AllColumns), "bed"),
           DropNaValues(Frame(MIN_SAMPLES, 0, 0, 0, 0, AllColumns), "bed")).p_value

Thresholds == {P_VALUE_THRESHOLD, AttainedPValue}

InitThreshold ==
  /\ PipelineIdle
  /\ reference_df \in ThresholdFrames
  /\ current_df \in ThresholdFrames
  /\ p_value_threshold \in Thresholds
  /\ verdict = NoReturn
  /\ CleanIdle
  /\ TrainIdle
  /\ ServeIdle
  /\ DagIdle
  /\ EndpointIdle

NextThreshold == DetectDrift

SpecThreshold == InitThreshold /\ [][NextThreshold]_vars

(***************************************************************************)
(* Properties.                                                             *)
(***************************************************************************)
Branches == {"train_model", "skip_training"}

\* the audit records of run r's cycle
RecordsOf(r) ==
  {i \in DOMAIN drift_history : drift_history[i].current_batch_id = xcom[r]}

\* C1 (fail-open): a check_drift in which any step raised an exception
\* returns 'train_model', never 'skip_training'.
C1_FailOpen ==
  \A r \in Runs :
    (gate[r].ran /\ gate[r].raised) =>
      (gate[r].branch = "train_model" /\ pc[r] = "train_model")

C1_Witness ==
  \E r \in Runs :
    /\ gate[r].ran /\ gate[r].raised /\ gate[r].exc = "detect"
    /\ pc[r] = "train_model"

\* C2: check_drift always ends in exactly one of the two branches, whichever
\* collaborator fails; no exception leaves it, so the task never fails.
C2_GateAlwaysDecides ==
  \A r \in Runs :
    /\ gate[r].ran => (pc[r] \in Branches /\ pc[r] = gate[r].branch)
    /\ pc[r] = "failed" => ~gate[r].ran

C2_Witness ==
  \E r \in Runs :
    /\ gate[r].ran /\ gate[r].raised /\ gate[r].exc = "xcom"
    /\ pc[r] \in Branches

\* C3 (claim as stated): every gate cycle, the error-fallback one included,
\* leaves exactly one record in drift_history. Stated for cycles whose audit
\* sink works, so that only the gate itself can be at fault.
C3_OneRecordPerCycle ==
  \A r \in Runs :
    (gate[r].ran /\ gate[r].audit_ok) => Cardinality(RecordsOf(r)) = 1

\* C4 (claim as stated): when the store held no batch before the run and
\* only the run's own batch since, check_drift returns 'train_model'. Stated
\* for a run in which no collaborator failed and whose batch the detector
\* could score, the plainest first run there is.
C4_FirstRunTrains ==
  \A r \in Runs :
    ( /\ gate[r].ran /\ faults = 0
      /\ \A i \in DOMAIN raw_data : raw_data[i].batch_id = xcom[r]
      /\ DOMAIN gate[r].locals.details.drift_scores # {} )
      => pc[r] = "train_model"

\* C5: when the selector gives no reference, check_drift returns
\* 'train_model' without running the cleaner or the detector and hands the
\* audit sink the zero-drift verdict of a first run, which is in
\* drift_history whenever the sink works.
FirstRunRecord(r, rec) ==
  /\ rec.drift_detected = FALSE
  /\ rec.drift_score = RatZero
  /\ rec.features_with_drift = <<>>
  /\ rec.reference_batch_id = NoneId
  /\ rec.current_batch_id = xcom[r]
  /\ rec.action_taken = "train_first_run"

C5_FirstRunVerdict ==
  \A r \in Runs :
    (gate[r].ran /\ gate[r].locals.first_run) =>
      /\ pc[r] = "train_model"
      /\ ~gate[r].locals.cleaner_ran /\ ~gate[r].locals.detector_ran
      /\ Len(gate[r].locals.logged) = 1
      /\ FirstRunRecord(r, gate[r].locals.logged[1])
      /\ gate[r].audit_ok =>
           /\ Cardinality(RecordsOf(r)) = 1
           /\ \A i \in RecordsOf(r) : FirstRunRecord(r, drift_history[i])

C5_Witness ==
  \E r \in Runs :
    /\ gate[r].ran /\ gate[r].locals.first_run /\ gate[r].audit_ok
    /\ pc[r] = "train_model"
    /\ \E i \in RecordsOf(r) : drift_history[i].action_taken = "train_first_run"

\* C6: with a reference and no error, check_drift trains iff the detector
\* reported drift, and the audit record agrees with the branch: 'retrain'
\* with the drifted features and max_drift_score, or 'skip' with none.
VerdictRecord(r, rec) ==
  LET d == gate[r].locals.details
  IN /\ rec.current_batch_id = xcom[r]
     /\ rec.reference_batch_id = gate[r].locals.reference_batch_id
     /\ IF pc[r] = "train_model"
        THEN /\ rec.action_taken = "retrain"
             /\ rec.drift_detected = TRUE
             /\ rec.features_with_drift = d.features_with_drift
             /\ rec.features_with_drift # <<>>
             /\ rec.drift_score = d.max_drift_score
        ELSE /\ rec.action_taken = "skip"
             /\ rec.drift_detected = FALSE
             /\ rec.features_with_drift = <<>>

C6_GateFollowsDetector ==
  \A r \in Runs :
    (gate[r].ran /\ ~gate[r].raised /\ ~gate[r].locals.first_run) =>
      /\ gate[r].locals.detector_ran
      /\ pc[r] \in Branches
      /\ pc[r] = "train_model" <=> gate[r].locals.details.drift_detected
      /\ Len(gate[r].locals.logged) = 1
      /\ VerdictRecord(r, gate[r].locals.logged[1])
      /\ gate[r].audit_ok =>
           /\ Cardinality(RecordsOf(r)) = 1
           /\ \A i \in RecordsOf(r) : VerdictRecord(r, drift_history[i])

C6_Witness ==
  \E r1, r2 \in Runs :
    /\ gate[r1].locals.detector_ran /\ pc[r1] = "train_model"
    /\ gate[r1].locals.details.drift_detected
    /\ \E i \in RecordsOf(r1) : drift_history[i].action_taken = "retrain"
    /\ gate[r2].locals.detector_ran /\ pc[r2] = "skip_training"
    /\ \E i \in RecordsOf(r2) : drift_history[i].action_taken = "skip"

\* C7: over the stored batches, the selector returns None when there is
\* none, the only batch when there is one, and otherwise the batch that has
\* exactly one newer batch, never the newest.
Newer(e) ==
  {i \in DOMAIN raw_data :
     raw_data[i].ingestion_timestamp > e.ingestion_timestamp}

IsBatch(df, e) ==
  /\ ~df.none
  /\ Len(df.rows) = Len(e.rows)
  /\ Range(df.rows) = Range(e.rows)
  /\ \A i \in DOMAIN df.rows : df.rows[i].batch_id = e.batch_id

C7_ReferenceSelection ==
  LET ref == get_reference_data(raw_data, TRUE)
      n == Len(raw_data)
  IN /\ n = 0 => ref.none
     /\ n = 1 => IsBatch(ref, raw_data[1])
     /\ n >= 2 => \E i \in DOMAIN raw_data :
                    /\ Cardinality(Newer(raw_data[i])) = 1
                    /\ IsBatch(ref, raw_data[i])

C7_Witness ==
  /\ Len(raw_data) >= 2
  /\ \E r \in Runs, i \in DOMAIN raw_data :
       /\ gate[r].locals.detector_ran
       /\ Cardinality(Newer(raw_data[i])) = 1
       /\ gate[r].locals.reference_batch_id = raw_data[i].batch_id
       /\ gate[r].locals.current_batch_id # raw_data[i].batch_id

\* C8 (claim as stated): whenever the detector runs, the reference batch is
\* not the batch under evaluation.
C8_NeverSelfCompare ==
  \A r \in Runs :
    gate[r].locals.detector_ran =>
      gate[r].locals.reference_batch_id # gate[r].locals.current_batch_id

\* C9: in every verdict of detect_drift, drift_detected holds iff some
\* feature is listed as drifted, and max_drift_score is the largest KS
\* statistic among the listed features, 0.0 when none is listed.
C9_AggregateInvariant ==
  verdict.returned =>
    LET d == verdict.details
        drifted == Range(d.features_with_drift)
    IN /\ verdict.has_drift = d.drift_detected
       /\ d.drift_detected <=> (Len(d.features_with_drift) > 0)
       /\ drifted \subseteq DOMAIN d.drift_scores
       /\ IF drifted = {} THEN d.max_drift_score = RatZero
          ELSE /\ \E f \in drifted : d.drift_scores[f].statistic = d.max_drift_score
               /\ \A f \in drifted :
                    d.drift_scores[f].statistic.num * d.max_drift_score.den
                      <= d.max_drift_score.num * d.drift_scores[f].statistic.den

C9_Witness ==
  /\ verdict.returned
  /\ verdict.details.features_with_drift # <<>>
  /\ \E f \in DOMAIN verdict.details.drift_scores :
       /\ ~verdict.details.drift_scores[f].drift
       /\ verdict.details.drift_scores[f].statistic.num
            * verdict.details.max_drift_score.den
          > verdict.details.max_drift_score.num
            * verdict.details.drift_scores[f].statistic.den

\* C10: a feature with fewer than 10 non-missing values on either side has
\* no entry in drift_scores and is not listed as drifted; a feature with at
\* least 10 on both sides has an entry.
NonMissing(df, f) ==
  IF f \in df.columns
  THEN Cardinality({i \in DOMAIN df.rows : df.rows[i][f] # NaN})
  ELSE 0

C10_SampleSizeGuard ==
  verdict.returned =>
    \A f \in Range(numerical_features) :
      LET few == NonMissing(reference_df, f) < MIN_SAMPLES
                   \/ NonMissing(current_df, f) < MIN_SAMPLES
      IN /\ few => /\ f \notin DOMAIN verdict.details.drift_scores
                   /\ f \notin Range(verdict.details.features_with_drift)
         /\ ~few => f \in DOMAIN verdict.details.drift_scores

C10_Witness ==
  /\ verdict.returned
  /\ \E f, h \in Range(numerical_features) :
       /\ NonMissing(reference_df, f) = MIN_SAMPLES - 1
       /\ NonMissing(current_df, f) >= MIN_SAMPLES
       /\ f \notin DOMAIN verdict.details.drift_scores
       /\ NonMissing(reference_df, h) = MIN_SAMPLES
       /\ NonMissing(current_df, h) = MIN_SAMPLES
       /\ h \in DOMAIN verdict.details.drift_scores

\* C11: a batch that is empty or lacks a feature column does not make
\* detect_drift raise; that feature has no entry in drift_scores and is not
\* listed as drifted; the result is decided by the scored features only, and
\* an empty batch gives drift_detected = False.
Degenerate(f) ==
  \/ Len(reference_df.rows) = 0 \/ Len(current_df.rows) = 0
  \/ f \notin reference_df.columns \/ f \notin current_df.columns

C11_DegenerateInputs ==
  verdict.returned =>
    LET d == verdict.details
    IN /\ ~verdict.raised
       /\ \A f \in Range(numerical_features) :
            Degenerate(f) => /\ f \notin DOMAIN d.drift_scores
                             /\ f \notin Range(d.features_with_drift)
       /\ d.drift_detected <=> \E f \in DOMAIN d.drift_scores : d.drift_scores[f].drift
       /\ (Len(reference_df.rows) = 0 \/ Len(current_df.rows) = 0) =>
            (~d.drift_detected /\ DOMAIN d.drift_scores = {})

C11_Witness ==
  /\ verdict.returned /\ ~verdict.raised
  /\ "price" \in reference_df.columns /\ "price" \notin current_df.columns
  /\ Len(reference_df.rows) >= MIN_SAMPLES /\ Len(current_df.rows) >= MIN_SAMPLES
  /\ "price" \notin DOMAIN verdict.details.drift_scores
  /\ verdict.details.drift_detected

\* C12: features_with_drift is exactly the scored features whose p-value is
\* strictly below the threshold, in the order bed, bath, acre_lot,
\* house_size, price; calling detect_drift again on the same batches and
\* threshold gives the identical verdict.
StrictlyBelow(p, t) == p.num * t.den < t.num * p.den

C12_DriftedFeatures ==
  verdict.returned =>
    LET d == verdict.details
        listed(f) == /\ f \in DOMAIN d.drift_scores
                     /\ StrictlyBelow(d.drift_scores[f].p_value, p_value_threshold)
    IN /\ d.features_with_drift = SelectSeq(numerical_features, listed)
       /\ \A f \in DOMAIN d.drift_scores : d.drift_scores[f].drift <=> listed(f)
       /\ d = detect_drift(reference_df, current_df, p_value_threshold)

C12_Witness ==
  /\ verdict.returned
  /\ verdict.details.features_with_drift = <<"acre_lot", "house_size", "price">>
  /\ {"bed", "bath"} \subseteq DOMAIN verdict.details.drift_scores
  /\ verdict.details.drift_scores["bed"].p_value = p_value_threshold

\* C13: a freshly trained version is transitioned to Production iff
\* r2 >= 0.35 and rmse <= 700000 both hold; the boundary values promote.
Finished(t) == trainer[t].pc = "done"

VersionOf(t) == registry[trainer[t].new_version]

C13_PromotionRequiresBoth ==
  \A t \in Trainings :
    Finished(t) =>
      /\ trainer[t].new_version \in DOMAIN registry
      /\ VersionOf(t).run_id = t
      /\ (VersionOf(t).current_stage # "None")
           <=> (trainer[t].r2 >= 35 /\ trainer[t].rmse <= 700000)
      /\ (trainer[t].promoted_to_production = "True")
           <=> (VersionOf(t).current_stage # "None")

C13_Witness ==
  \E t, u \in Trainings :
    /\ Finished(t) /\ trainer[t].r2 = R2_THRESHOLD /\ trainer[t].rmse = RMSE_THRESHOLD
    /\ VersionOf(t).current_stage = "Production"
    /\ Finished(u) /\ trainer[u].r2 > R2_THRESHOLD /\ trainer[u].rmse > RMSE_THRESHOLD
    /\ VersionOf(u).current_stage = "None"

\* C14 (claim as stated): the promotion reason of an unpromoted candidate
\* names every failed condition and only the failed ones.
FailedConditions(t) ==
  {c \in {"R2", "RMSE"} :
     \/ c = "R2" /\ trainer[t].r2 < R2_THRESHOLD
     \/ c = "RMSE" /\ trainer[t].rmse > RMSE_THRESHOLD}

C14_ReasonNamesFailures ==
  \A t \in Trainings :
    (Finished(t) /\ trainer[t].promoted_to_production = "False") =>
      trainer[t].promotion_reason.names = FailedConditions(t)

\* C15: at most one version is in Production; every version a call
\* registered stays in the registry, a promoted one in Production or
\* Archived; once a candidate was promoted there is a Production version,
\* and it is never an unpromoted candidate.
InStage(stage) == {i \in DOMAIN registry : registry[i].current_stage = stage}

C15_OneProduction ==
  /\ Cardinality(InStage("Production")) <= 1
  /\ \A i \in DOMAIN registry : registry[i].version = i
  /\ \A t \in Trainings :
       /\ trainer[t].pc \in {"promotion_check", "done"} =>
            \E i \in DOMAIN registry : registry[i].run_id = t
       /\ (Finished(t) /\ trainer[t].promoted_to_production = "True") =>
            /\ VersionOf(t).current_stage \in {"Production", "Archived"}
            /\ Cardinality(InStage("Production")) = 1
       /\ (Finished(t) /\ trainer[t].promoted_to_production = "False") =>
            VersionOf(t).current_stage = "None"

C15_Witness ==
  \E t, u \in Trainings :
    /\ Finished(t) /\ Finished(u)
    /\ VersionOf(t).current_stage = "Archived"
    /\ VersionOf(u).current_stage = "Production"

\* C16 (claim as stated): a /predict that runs while load_production_model
\* runs reads model, state_means, feature_names and the version, stage and
\* run id all from one and the same model version.
Responded == reader.at = Len(PredictReads)

C16_ReloadAtomic ==
  Responded =>
    \E v \in DOMAIN registry : \A g \in Range(PredictReads) : reader.seen[g] = v

\* C17 (claim as stated): clean_data fails with a validation error, and
\* returns no batch, whenever zero rows remain after cleaning or one of
\* price, bed, bath, house_size is not a column of the input.
C17_ValidationError ==
  ( /\ cleaned.returned
    /\ \/ Len(cleaned.df.rows) = 0
       \/ ~({"price", "bed", "bath", "house_size"} \subseteq raw_df.columns) )
    => cleaned.raised

\* C18: when the input has all five numeric columns, every row clean_data
\* returns has the five fields present and within price > 0, bed in
\* [1, 20], bath in [0.5, 15], acre_lot in [0.001, 1000], house_size in
\* [100, 50000], also when every acre_lot of the input is missing.
HasValue(v) == v # NaN /\ v # NonNumeric

WithinDomain(r) ==
  /\ \A c \in Range(numerical_features) : HasValue(r[c])
  /\ r.price > 0
  /\ r.bed >= 1 /\ r.bed <= 20
  /\ r.bath >= 5 /\ r.bath <= 150
  /\ r.acre_lot >= 2 /\ r.acre_lot <= 2000000
  /\ r.house_size >= 100 /\ r.house_size <= 50000

C18_DomainBounds ==
  (cleaned.returned /\ Range(numerical_features) \subseteq raw_df.columns) =>
    \A i \in DOMAIN cleaned.df.rows : WithinDomain(cleaned.df.rows[i])

C18_Witness ==
  /\ cleaned.returned
  /\ Range(numerical_features) \subseteq raw_df.columns
  /\ raw_df.rows[1].bed = 21
  /\ \E i \in DOMAIN raw_df.rows : raw_df.rows[i].acre_lot = NaN
  /\ Len(cleaned.df.rows) > 0
  /\ Len(cleaned.df.rows) < Len(raw_df.rows)

\* C19 (claim as stated): clean_data(clean_data(b)) has exactly the rows of
\* clean_data(b), also for batches of more than 100 rows.
C19_Idempotent ==
  cleaned.returned => cleaned.again.rows = cleaned.df.rows

\* C20: from a batch of at most 100 rows clean_data returns, in their
\* order, exactly the distinct input rows whose price, bed, bath and
\* house_size are present and numeric and whose numeric fields are within
\* the bounds (a missing acre_lot counting with the batch median it is
\* filled with); the percentile filter removes nothing.
FirstOfItsKind(i) ==
  ~\E j \in 1..(i - 1) : \A c \in raw_df.columns : raw_df.rows[j][c] = raw_df.rows[i][c]

CriticalPresent(i) ==
  \A c \in {"price", "bed", "bath", "house_size"} \cap raw_df.columns :
    HasValue(raw_df.rows[i][c])

\* the median of the acre_lot values of the rows that reach the fill
BatchMedian ==
  Median([i \in DOMAIN raw_df.rows |->
            IF FirstOfItsKind(i) /\ CriticalPresent(i) /\ HasValue(raw_df.rows[i].acre_lot)
            THEN raw_df.rows[i].acre_lot ELSE NaN])

ValueAfterFill(i, c) ==
  IF c = "acre_lot" /\ ~HasValue(raw_df.rows[i][c]) THEN BatchMedian
  ELSE raw_df.rows[i][c]

ValueWithinBounds(c, v) ==
  /\ HasValue(v)
  /\ v > 0
  /\ c = "bed" => (v >= 1 /\ v <= 20)
  /\ c = "bath" => (v >= 5 /\ v <= 150)
  /\ c = "acre_lot" => (v >= 2 /\ v <= 2000000)
  /\ c = "house_size" => (v >= 100 /\ v <= 50000)

Survives(i) ==
  /\ FirstOfItsKind(i)
  /\ CriticalPresent(i)
  /\ \A c \in Range(numerical_features) \cap raw_df.columns :
       ValueWithinBounds(c, ValueAfterFill(i, c))

C20_SmallBatchRows ==
  (cleaned.returned /\ Len(raw_df.rows) <= 100) =>
    LET kept == SelectSeq([i \in DOMAIN raw_df.rows |-> i], Survives)
    IN /\ Len(cleaned.df.rows) = Len(kept)
       /\ \A k \in DOMAIN kept :
            /\ cleaned.df.rows[k].id = raw_df.rows[kept[k]].id
            /\ \A c \in Range(numerical_features) \cap raw_df.columns :
                 cleaned.df.rows[k][c] = ValueAfterFill(kept[k], c)

C20_Witness ==
  /\ cleaned.returned
  /\ Len(raw_df.rows) = SmallRows
  /\ raw_df.rows[1].price = NaN
  /\ \A i \in 2..SmallRows : FirstOfItsKind(i) /\ raw_df.rows[i].acre_lot # NaN
  /\ Len(cleaned.df.rows) = SmallRows - 1
  /\ \A k \in DOMAIN cleaned.df.rows : cleaned.df.rows[k].price # NaN

\* C21: when the drift_history write fails, log_drift_result does not raise
\* and check_drift returns the branch of the return statement it had
\* reached: 'skip_training' with the action 'skip', 'train_model' with
\* 'retrain' and 'train_first_run'.
BranchOfAction(action_taken) ==
  IF action_taken = "skip" THEN "skip_training" ELSE "train_model"

C21_AuditBestEffort ==
  \A r \in Runs :
    (gate[r].ran /\ ~gate[r].audit_ok /\ gate[r].locals.logged # <<>>) =>
      /\ ~gate[r].raised
      /\ gate[r].branch = BranchOfAction(gate[r].locals.logged[1].action_taken)
      /\ pc[r] = gate[r].branch

C21_Witness ==
  \E r \in Runs :
    /\ gate[r].ran /\ ~gate[r].audit_ok
    /\ gate[r].locals.logged # <<>>
    /\ gate[r].locals.logged[1].action_taken = "skip"
    /\ gate[r].branch = "skip_training"
    /\ drift_history = <<>>

\* C23 (claim as stated): two runs of the DAG never have their ingest_data
\* and check_drift steps interleaved: while one run is between the start of
\* its ingest_data and the end of its check_drift, no other run is.
Evaluating(r) == pc[r] = "check_drift"

C23_OneEvaluationInFlight ==
  Cardinality({r \in Runs : Evaluating(r)}) <= 1

\* C25 (claim as stated): when cleaning leaves no row of the current
\* batch, check_drift returns 'train_model' through the exception handler.
C25_MalformedBatchRetrains ==
  \A r \in Runs :
    (gate[r].ran /\ gate[r].locals.detector_ran
       /\ gate[r].locals.details.current_samples = 0) =>
      (gate[r].raised /\ gate[r].branch = "train_model")

\* C26 (claim as stated): when the query of get_reference_data fails,
\* check_drift returns 'train_model' and the cycle is not recorded with the
\* action 'train_first_run'.
C26_StoreFailureIsErrorFallback ==
  \A r \in Runs :
    (gate[r].ran /\ gate[r].locals.reference_failed) =>
      /\ gate[r].branch = "train_model"
      /\ ~gate[r].locals.first_run
      /\ \A k \in DOMAIN gate[r].locals.logged :
           gate[r].locals.logged[k].action_taken # "train_first_run"

\* C30 (claim as stated): the rows check_drift evaluates are the rows the
\* ingest_data of the same run stored, also when they come from the S3 key
\* current_batch.csv and another run has ingested in between.
C30_OwnBatchEvaluated ==
  \A r \in Runs :
    (gate[r].ran /\ gate[r].locals.loaded_batch_id # NoneId) =>
      gate[r].locals.loaded_batch_id = xcom[r]

\* C24: the reference baseline advances only through ingestion: every step
\* that is not an ingest_data storing its batch (check_drift with its call
\* of get_reference_data, train_model whether it succeeds or fails, the
\* promotion inside it, reload_api) leaves raw_data, and with it the batch
\* the selector returns, as it was.
StoresBatch(r) == pc[r] = "ingest_data" /\ pc'[r] = "check_drift"

C24_ReferenceAdvancesByIngestion ==
  [][(~\E r \in Runs : StoresBatch(r)) =>
       /\ raw_data' = raw_data
       /\ get_reference_data(raw_data', TRUE) = get_reference_data(raw_data, TRUE)]_vars

C24_Witness ==
  \E r \in Runs :
    /\ dag[r].train_model = "success"
    /\ dag[r].reload_api = "success"
    /\ clean_table # <<>>
    /\ Len(registry) = 1
    /\ Len(raw_data) = 1

\* C28: of train_model and skip_training a run executes the one check_drift
\* returned and never both; reload_api executes only after the train_model
\* of its run has succeeded; and a run in which no task failed ends with
\* end_pipeline executed, on either branch.
TrainExecuted(r) == dag[r].try_number > 0
SkipExecuted(r) == dag[r].skip_training = "success"

RunFinished(r) ==
  \A task \in {"ingest_data", "check_drift"} \cup (DOMAIN NoTasks \ {"try_number"}) :
    TaskState(r, task) # "none"

C28_BranchAndReload ==
  \A r \in Runs :
    /\ ~(TrainExecuted(r) /\ SkipExecuted(r))
    /\ TrainExecuted(r) => (gate[r].ran /\ gate[r].branch = "train_model")
    /\ SkipExecuted(r) => (gate[r].ran /\ gate[r].branch = "skip_training")
    /\ dag[r].reload_api # "none" =>
         (dag[r].reload_api = "success" /\ dag[r].train_model = "success")
    /\ (RunFinished(r) /\ gate[r].ran) =>
         /\ TrainExecuted(r) \/ SkipExecuted(r)
         /\ dag[r].train_model = "failed" =>
              (TaskState(r, "reload_api") = "upstream_failed"
                 /\ TaskState(r, "end_pipeline") = "upstream_failed")
         /\ dag[r].train_model # "failed" => dag[r].end_pipeline = "success"

C28_Witness ==
  \E r \in Runs :
    /\ RunFinished(r)
    /\ dag[r].train_model = "success"
    /\ dag[r].reload_api = "success"
    /\ dag[r].end_pipeline = "success"
    /\ TaskState(r, "skip_training") = "skipped"

\* C29: a load that has returned leaves the reported model_version,
\* model_stage and model_run_id describing the model held in memory.
C29_FailedReloadLeavesState ==
  loader.pc = "idle" =>
    /\ api.model_run_id = api.model
    /\ api.model_version \in {api.model, LATEST}
    /\ api.model_stage \in {api.model, FALLBACK}

\* C27: of a batch of more than 100 valid rows of which one has an extreme
\* price, clean_data returns exactly the other rows.
C27_OnlyTheOutlierRemoved ==
  (cleaned.returned /\ raw_df \in OutlierFrames) =>
    [k \in DOMAIN cleaned.df.rows |-> cleaned.df.rows[k].id]
      = [k \in 1..(Len(raw_df.rows) - 1) |-> k]

\* C22: a handler that finds model None answers 503 without a prediction
\* and without an inference_logs row, on /ready, /predict, /explain and
\* /batch_predict; with a model but no explainer /explain answers 503,
\* and /predict answers 200 with the prediction whenever model.predict
\* returns, as it does with an explainer.
NeedsModel == {"ready", "predict", "explain", "batch_predict"}

C22_Unavailable ==
  /\ inference_logs <= MaxInferences
  /\ (response.endpoint \in NeedsModel /\ response.model = NoneId) =>
       (response.status_code = 503 /\ ~response.predicted /\ ~response.logged)
  /\ (response.endpoint = "explain" /\ response.model # NoneId
        /\ response.explainer = NoneId) =>
       (response.status_code = 503 /\ ~response.predicted)
  /\ (response.endpoint = "predict" /\ response.model # NoneId) =>
       /\ response.status_code \in {200, 500}
       /\ response.status_code = 200 <=> response.predicted
  /\ response.logged => (response.endpoint = "predict" /\ response.status_code = 200)

C22_Witness ==
  /\ response.endpoint = "predict"
  /\ response.model # NoneId
  /\ response.explainer = NoneId
  /\ response.status_code = 200
  /\ response.logged
  /\ inference_logs = 1

====
